---- MODULE Spec2Model ----
(***************************************************************************)
(* Model of the signal-generator controller: the session of main           *)
(* (discovery, connection, two exchanges, hold, disconnect), the exchange  *)
(* engine write_read, and the command encoder Command::to_string.          *)
(*                                                                         *)
(* Text is a sequence of one-character strings; bytes and decoded code     *)
(* points are integers.  The serial device is the environment: it answers  *)
(* a frame that reached it with one of Replies, and its bytes wait in      *)
(* `wire` until a read takes them.                                         *)
(***************************************************************************)
EXTENDS Integers, Sequences, FiniteSets, TLC

\* ------------------------------------------------------------------ bounds
\* Longest list of serial ports the discovery sees.
MaxPorts == 2
\* Read attempts of one exchange that may return without data in zero time.
MaxReads == 1
\* Granularity of the clock, in milliseconds.
TickMs == 250
\* The largest magnitude, in eighths, of the values given to the encoder.
MaxEighths == 12

\* ------------------------------------------------------- program constants
TARGET_VENDOR_ID == 8137
TARGET_PRODUCT_ID == 131
\* let timeout = Duration::from_millis(500)
timeout == 500
\* let mut temp_buffer = [0; 256]
temp_buffer_len == 256
\* the terminator "\r\n", as bytes
CR == 13
LF == 10
\* U+FFFD REPLACEMENT CHARACTER, what from_utf8_lossy puts for invalid input
REPLACEMENT == 65533

Min(a, b) == IF a < b THEN a ELSE b

\* ------------------------------------------------------------ text helpers
Upper == <<"A", "B", "C", "D", "E", "F", "G", "H", "I", "J", "K", "L", "M",
           "N", "O", "P", "Q", "R", "S", "T", "U", "V", "W", "X", "Y", "Z">>
Lower == <<"a", "b", "c", "d", "e", "f", "g", "h", "i", "j", "k", "l", "m",
           "n", "o", "p", "q", "r", "s", "t", "u", "v", "w", "x", "y", "z">>
Digit == <<"0", "1", "2", "3", "4", "5", "6", "7", "8", "9">>

\* The ASCII code of a character of the command alphabet.
Ord(c) ==
    CASE c = "\r" -> CR
      [] c = "\n" -> LF
      [] c = "$" -> 36
      [] c = "," -> 44
      [] c = "-" -> 45
      [] c = "." -> 46
      [] \E i \in 1..10 : Digit[i] = c -> 47 + (CHOOSE i \in 1..10 : Digit[i] = c)
      [] \E i \in 1..26 : Upper[i] = c -> 64 + (CHOOSE i \in 1..26 : Upper[i] = c)
      [] \E i \in 1..26 : Lower[i] = c -> 96 + (CHOOSE i \in 1..26 : Lower[i] = c)

\* str::as_bytes on text of the command alphabet (all ASCII: one byte each).
as_bytes(s) == [i \in 1..Len(s) |-> Ord(s[i])]

\* String::from_utf8_lossy for bytes below 0xE0: an ASCII byte is itself, a
\* two-byte sequence (0xC2..0xDF, 0x80..0xBF) is its code point, and every
\* other byte is replaced by U+FFFD.
RECURSIVE from_utf8_lossy(_)
from_utf8_lossy(bs) ==
    IF bs = <<>> THEN <<>>
    ELSE LET b == Head(bs) IN
         IF b < 128 THEN <<b>> \o from_utf8_lossy(Tail(bs))
         ELSE IF b \in 194..223 /\ Len(bs) >= 2 /\ bs[2] \in 128..191
              THEN <<(b - 192) * 64 + (bs[2] - 128)>> \o from_utf8_lossy(Tail(Tail(bs)))
              ELSE <<REPLACEMENT>> \o from_utf8_lossy(Tail(bs))

\* str::contains: pat occurs in s as a contiguous run.
contains(s, pat) ==
    \E i \in 1..(Len(s) + 1 - Len(pat)) : SubSeq(s, i, i + Len(pat) - 1) = pat

Terminator == <<CR, LF>>

\* The test of the buffer as ends_with("\r\n") would make it.
EndsWithTerminator(buf) ==
    Len(buf) >= 2 /\ SubSeq(buf, Len(buf) - 1, Len(buf)) = Terminator

\* The test of the buffer as contains('\r') would make it.
HasCarriageReturn(buf) == \E i \in 1..Len(buf) : buf[i] = CR

\* buffer.contains("\r\n")
HasTerminator(buf) == contains(buf, Terminator)

RECURSIVE Concat(_)
Concat(chunkSeq) ==
    IF chunkSeq = <<>> THEN <<>> ELSE Head(chunkSeq) \o Concat(Tail(chunkSeq))

\* ------------------------------------------------------------ Command model
\* An f32 that is a multiple of 1/8 (exactly representable): its sign and its
\* magnitude in eighths.  A sign with magnitude 0 is the negative zero.
F32(neg, eighths) == [cls |-> "finite", neg |-> neg, mag |-> eighths]

\* The f32 values that are no numbers: the infinities and NaN.
INFINITY == [cls |-> "inf", neg |-> FALSE, mag |-> 0]
NEG_INFINITY == [cls |-> "inf", neg |-> TRUE, mag |-> 0]
NAN == [cls |-> "nan", neg |-> FALSE, mag |-> 0]

\* enum Command: one constructor per variant.
GetIdentity == [tag |-> "GetIdentity", verbose |-> FALSE, f |-> <<>>]
GetVersion == [tag |-> "GetVersion", verbose |-> FALSE, f |-> <<>>]
GetStatus(verbose) == [tag |-> "GetStatus", verbose |-> verbose, f |-> <<>>]
ClearErrors == [tag |-> "ClearErrors", verbose |-> FALSE, f |-> <<>>]
GetFrequency == [tag |-> "GetFrequency", verbose |-> FALSE, f |-> <<>>]
SetFrequency(v) == [tag |-> "SetFrequency", verbose |-> FALSE, f |-> <<v>>]
GetPaPower == [tag |-> "GetPaPower", verbose |-> FALSE, f |-> <<>>]
GetPowerSetpoint == [tag |-> "GetPowerSetpoint", verbose |-> FALSE, f |-> <<>>]
SetPower(v) == [tag |-> "SetPower", verbose |-> FALSE, f |-> <<v>>]
ConfigureDll(p1, p2, p3, p4, p5, p6) ==
    [tag |-> "ConfigureDll", verbose |-> FALSE, f |-> <<p1, p2, p3, p4, p5, p6>>]
DllEnable == [tag |-> "DllEnable", verbose |-> FALSE, f |-> <<>>]
DllDisable == [tag |-> "DllDisable", verbose |-> FALSE, f |-> <<>>]
RfEnable == [tag |-> "RfEnable", verbose |-> FALSE, f |-> <<>>]
RfDisable == [tag |-> "RfDisable", verbose |-> FALSE, f |-> <<>>]
SweepDbm(start, stop, step, dwell) ==
    [tag |-> "SweepDbm", verbose |-> FALSE, f |-> <<start, stop, step, dwell>>]

\* The decimal digits of a natural number.
RECURSIVE Digits(_)
Digits(n) == IF n < 10 THEN <<Digit[n + 1]>> ELSE Digits(n \div 10) \o <<Digit[(n % 10) + 1]>>

\* The value in hundredths, rounded as "{:.2}" rounds: to the nearest, and an
\* exact tie to the even neighbour.
Hundredths(v) ==
    LET q == (v.mag * 25) \div 2
        tie == (v.mag * 25) % 2 = 1
    IN  IF tie /\ q % 2 = 1 THEN q + 1 ELSE q

\* format!("{:.2}", value): a finite value is its sign, its integer digits, a
\* point and two digits; the precision does not apply to NaN and the
\* infinities, which are "NaN", "inf" and "-inf".
Fmt2(v) ==
    LET h == Hundredths(v) IN
    CASE v.cls = "nan" -> <<"N", "a", "N">>
      [] v.cls = "inf" -> (IF v.neg THEN <<"-">> ELSE <<>>) \o <<"i", "n", "f">>
      [] v.cls = "finite" ->
            (IF v.neg THEN <<"-">> ELSE <<>>)
                \o Digits(h \div 100)
                \o <<".", Digit[((h \div 10) % 10) + 1], Digit[(h % 10) + 1]>>

\* The fields as they would be if the arguments were passed last to first.
RECURSIVE FieldsReversed(_)
FieldsReversed(fs) ==
    IF fs = <<>> THEN <<>> ELSE FieldsReversed(Tail(fs)) \o <<",">> \o Fmt2(Head(fs))

\* The fields of a command, each preceded by a comma.
RECURSIVE Fields(_)
Fields(fs) == IF fs = <<>> THEN <<>> ELSE <<",">> \o Fmt2(Head(fs)) \o Fields(Tail(fs))

\* Command::to_string
to_string(c) ==
    CASE c.tag = "GetIdentity" -> <<"$", "I", "D", "N", ",", "0">>
      [] c.tag = "GetVersion" -> <<"$", "V", "E", "R", ",", "0">>
      [] c.tag = "GetStatus" ->
            IF c.verbose THEN <<"$", "S", "T", ",", "0", ",", "1">>
            ELSE <<"$", "S", "T", ",", "0">>
      [] c.tag = "ClearErrors" -> <<"$", "E", "R", "R", "C", ",", "0">>
      [] c.tag = "GetFrequency" -> <<"$", "F", "C", "G", ",", "0">>
      [] c.tag = "SetFrequency" -> <<"$", "F", "C", "S", ",", "0">> \o Fields(c.f)
      [] c.tag = "GetPaPower" -> <<"$", "P", "P", "G", ",", "0">>
      [] c.tag = "GetPowerSetpoint" -> <<"$", "P", "W", "R", "G", ",", "0">>
      [] c.tag = "SetPower" -> <<"$", "P", "W", "R", "S", ",", "0">> \o Fields(c.f)
      [] c.tag = "ConfigureDll" -> <<"$", "D", "L", "E", "S", ",", "0">> \o Fields(c.f)
      [] c.tag = "DllEnable" -> <<"$", "D", "L", "E", "S", ",", "0", ",", "1">>
      [] c.tag = "DllDisable" -> <<"$", "D", "L", "E", "S", ",", "0", ",", "0">>
      [] c.tag = "RfEnable" -> <<"$", "E", "C", "S", ",", "0", ",", "1">>
      [] c.tag = "RfDisable" -> <<"$", "E", "C", "S", ",", "0", ",", "0">>
      [] c.tag = "SweepDbm" ->
            <<"$", "S", "W", "P", "D", ",", "0">> \o Fields(c.f) \o <<",", "0">>

\* The commands main sends, in order: SetFrequency(50.), then GetFrequency.
SessionCommands == <<SetFrequency(F32(FALSE, 400)), GetFrequency>>

\* The frame as it would be with the command string alone.
FrameBare(tx) == tx

\* format!("{}\r\n", tx)
Frame(tx) == tx \o <<"\r", "\n">>

\* ------------------------------------------------------------- environment
\* What available_ports() can report about one endpoint: a USB port with its
\* vendor and product identifiers, or a port of another type.
PortTypes ==
    { [usb |-> TRUE, vid |-> TARGET_VENDOR_ID, pid |-> TARGET_PRODUCT_ID],
      [usb |-> TRUE, vid |-> TARGET_VENDOR_ID, pid |-> TARGET_PRODUCT_ID + 1],
      [usb |-> TRUE, vid |-> TARGET_VENDOR_ID + 1, pid |-> TARGET_PRODUCT_ID],
      [usb |-> FALSE, vid |-> 0, pid |-> 0] }

\* The lists of endpoints the platform may hold; port_name is the position.
PortLists ==
    UNION { { [i \in 1..n |-> [port_name |-> i, usb |-> t[i].usb,
                                vid |-> t[i].vid, pid |-> t[i].pid]] :
                t \in [1..n -> PortTypes] } : n \in 0..MaxPorts }

\* std::io::ErrorKind values the transport reports.
ErrorKinds == {"TimedOut", "BrokenPipe"}

\* What the device may send back for one frame: nothing, text without a
\* terminator, a terminated line, a terminated line with a two-byte UTF-8
\* character, and a terminated line followed by more bytes.
Replies ==
    { <<>>,
      <<65, 66>>,
      <<195, 169, CR, LF>>,
      <<CR, LF, 66>> }

\* ------------------------------------------------------------------- state
VARIABLES
    pc,                 \* where the session is
    ports,              \* the endpoints available_ports() reports
    signal_generators,  \* the endpoints that passed the filter
    opened,             \* port names on which open() was attempted, in order
    port,               \* the transport handle: "none", "open" or "released"
    releases,           \* number of times the handle was dropped
    exIdx,              \* number of the exchange called last (0: none yet)
    command,            \* the command of that exchange
    tx,                 \* the command string of that exchange
    sent,               \* frames write_all accepted, in order, each with its exchange
    stale,              \* how many bytes were waiting on the handle at the call
    wire,               \* bytes the device sent that no read has taken yet
    buffer,             \* write_read's buffer
    elapsed,            \* start_time.elapsed(), in milliseconds (0 outside the loop)
    results,            \* what each exchange returned
    writes,             \* write_all calls of that exchange
    flushes,            \* flush calls of that exchange
    flushed,            \* exchanges whose flush succeeded
    reads,              \* read calls of that exchange
    empty_reads,        \* those of them that brought no data and no fault
    chunks,             \* the non-empty chunks each exchange read, in order
    last_read           \* outcome of the latest read call of that exchange

vars == <<pc, ports, signal_generators, opened, port, releases, exIdx, command,
          tx, sent, stale, wire, buffer, elapsed, results, writes, flushes, flushed, reads,
          empty_reads, chunks, last_read>>

Exchanges == 1..Len(SessionCommands)

\* No command has been built yet.
NoCommand == [tag |-> "None", verbose |-> FALSE, f |-> <<>>]

\* Result<String, String>: Ok(text), or Err(message) with the kind of the
\* I/O error the message prints.
NoResult == [tag |-> "None", text |-> <<>>, msg |-> "", kind |-> ""]
Ok(text) == [tag |-> "Ok", text |-> text, msg |-> "", kind |-> ""]
Err(msg, kind) == [tag |-> "Err", text |-> <<>>, msg |-> msg, kind |-> kind]

WriteFailed == "Failed to write to the port"
FlushFailed == "Failed to flush the port"
ReadFailed == "Failed to read from the port"
Timeout == "Timeout while waiting for response."

Init ==
    /\ pc = "autodetect"
    /\ ports \in PortLists
    /\ signal_generators = <<>>
    /\ opened = <<>>
    /\ port = "none"
    /\ releases = 0
    /\ exIdx = 0
    /\ command = NoCommand
    /\ tx = <<>>
    /\ sent = <<>>
    /\ stale = 0
    /\ wire = <<>>
    /\ buffer = <<>>
    /\ elapsed = 0
    /\ results = [i \in Exchanges |-> NoResult]
    /\ writes = 0
    /\ flushes = 0
    /\ flushed = {}
    /\ reads = 0
    /\ empty_reads = 0
    /\ chunks = [i \in Exchanges |-> <<>>]
    /\ last_read = "none"

\* ------------------------------------------------ discovery and connection
\* The filter closure as it would be if it compared the vendor only.
IsTargetVendorOnly(p) == p.usb /\ p.vid = TARGET_VENDOR_ID

\* The filter closure of autodetect_sg_port.
IsTarget(p) == p.usb /\ p.vid = TARGET_VENDOR_ID /\ p.pid = TARGET_PRODUCT_ID

\* autodetect_sg_port: the enumeration fails and the process exits, or the
\* list is consumed (into_iter) and its matching endpoints are collected in
\* order.
Autodetect ==
    /\ pc = "autodetect"
    /\ \E listed \in BOOLEAN :
         IF listed
         THEN /\ signal_generators' = SelectSeq(ports, IsTarget)
              /\ pc' = "connect"
         ELSE /\ pc' = "exit"
              /\ UNCHANGED signal_generators
    /\ ports' = <<>>
    /\ UNCHANGED <<opened, port, releases, exIdx, command, stale, tx, sent,
                   wire, buffer, elapsed, results, writes, flushes, flushed,
                   reads, empty_reads, chunks, last_read>>

\* connect_to_signal_generator after the detection, and main's match on it:
\* no candidate or a failed open ends main; otherwise the first candidate is
\* opened and is the session's port.  The list of candidates is a local of
\* connect_to_signal_generator and is gone when it returns.
Connect ==
    /\ pc = "connect"
    /\ IF signal_generators = <<>>
       THEN /\ pc' = "returned"
            /\ UNCHANGED <<opened, port>>
       ELSE /\ opened' = Append(opened, signal_generators[1].port_name)
            /\ \E ok \in BOOLEAN :
                 IF ok THEN port' = "open" /\ pc' = "call"
                       ELSE port' = port /\ pc' = "returned"
    /\ signal_generators' = <<>>
    /\ UNCHANGED <<ports, releases, exIdx, command, stale, tx, sent, wire,
                   buffer, elapsed, results, writes, flushes, flushed, reads,
                   empty_reads, chunks, last_read>>

\* ------------------------------------------------------------------- main
\* The call as it would be if the input of the port were cleared first.
CallClearsInput ==
    /\ pc = "call"
    /\ exIdx < Len(SessionCommands)
    /\ exIdx' = exIdx + 1
    /\ command' = SessionCommands[exIdx + 1]
    /\ tx' = to_string(command')
    /\ wire' = <<>>
    /\ stale' = 0
    /\ writes' = 0
    /\ flushes' = 0
    /\ reads' = 0
    /\ empty_reads' = 0
    /\ last_read' = "none"
    /\ pc' = "write"
    /\ UNCHANGED <<ports, signal_generators, opened, port, releases, sent,
                   buffer, elapsed, results, flushed, chunks>>

\* main builds the next command, encodes it and calls write_read; the bytes
\* that wait on the handle stay where they are.
Call ==
    /\ pc = "call"
    /\ exIdx < Len(SessionCommands)
    /\ exIdx' = exIdx + 1
    /\ command' = SessionCommands[exIdx + 1]
    /\ tx' = to_string(command')
    /\ stale' = Len(wire)
    /\ writes' = 0
    /\ flushes' = 0
    /\ reads' = 0
    /\ empty_reads' = 0
    /\ last_read' = "none"
    /\ pc' = "write"
    /\ UNCHANGED <<ports, signal_generators, opened, port, releases, sent,
                   wire, buffer, elapsed, results, flushed, chunks>>

\* Where main would go on if an Err were returned from main at once.
AfterReturnAbort(i) ==
    IF results'[i].tag = "Err" THEN "returned"
    ELSE IF i < Len(SessionCommands) THEN "call" ELSE "sleep"

\* Where main goes on when write_read has returned: main prints the result,
\* whatever it is, and goes to its next statement.
AfterReturn(i) == IF i < Len(SessionCommands) THEN "call" ELSE "sleep"

\* -------------------------------------------------------------- write_read
\* Write as it would be if a failed write_all returned the message of the
\* flush error.
WriteReportsFlush ==
    /\ pc = "write"
    /\ writes' = writes + 1
    /\ \E outcome \in {"Ok"} \cup ErrorKinds :
         IF outcome = "Ok"
         THEN /\ sent' = Append(sent, [ex |-> exIdx, frame |-> as_bytes(Frame(tx))])
              /\ pc' = "flush"
              /\ UNCHANGED results
         ELSE /\ results' = [results EXCEPT ![exIdx] = Err(FlushFailed, outcome)]
              /\ pc' = AfterReturn(exIdx)
              /\ UNCHANGED sent
    /\ UNCHANGED <<ports, signal_generators, opened, port, releases, exIdx,
                   command, stale, tx, wire, buffer, elapsed, flushes,
                   flushed, reads, empty_reads, chunks, last_read>>

\* Write as it would be with the result of write_all ignored: the exchange
\* goes on to the flush whether the frame was accepted or not.
WriteUnchecked ==
    /\ pc = "write"
    /\ writes' = writes + 1
    /\ \E outcome \in {"Ok"} \cup ErrorKinds :
         IF outcome = "Ok"
         THEN sent' = Append(sent, [ex |-> exIdx, frame |-> as_bytes(Frame(tx))])
         ELSE UNCHANGED sent
    /\ pc' = "flush"
    /\ UNCHANGED <<ports, signal_generators, opened, port, releases, exIdx,
                   command, stale, tx, wire, buffer, elapsed, results,
                   flushes, flushed, reads, empty_reads, chunks, last_read>>

\* port.write_all(command.as_bytes()): the frame is accepted, or the call
\* fails and write_read returns the write error.
Write ==
    /\ pc = "write"
    /\ writes' = writes + 1
    /\ \E outcome \in {"Ok"} \cup ErrorKinds :
         IF outcome = "Ok"
         THEN /\ sent' = Append(sent, [ex |-> exIdx, frame |-> as_bytes(Frame(tx))])
              /\ pc' = "flush"
              /\ UNCHANGED results
         ELSE /\ results' = [results EXCEPT ![exIdx] = Err(WriteFailed, outcome)]
              /\ pc' = AfterReturn(exIdx)
              /\ UNCHANGED sent
    /\ UNCHANGED <<ports, signal_generators, opened, port, releases, exIdx,
                   command, stale, tx, wire, buffer, elapsed, flushes,
                   flushed, reads, empty_reads, chunks, last_read>>

\* The buffer as it would start if it outlived the call: what the call
\* before left in it.
StaleBuffer == buffer

\* let mut buffer = String::new()
NewBuffer == <<>>

\* port.flush(), then the locals of the read loop.  The frame is on its way
\* to the device, which answers with one of Replies; a failed flush returns
\* the flush error.
Flush ==
    /\ pc = "flush"
    /\ flushes' = flushes + 1
    /\ \E reply \in Replies : wire' = wire \o reply
    /\ \E outcome \in {"Ok"} \cup ErrorKinds :
         IF outcome = "Ok"
         THEN /\ flushed' = flushed \cup {exIdx}
              /\ buffer' = NewBuffer
              /\ elapsed' = 0
              /\ pc' = "loop"
              /\ UNCHANGED results
         ELSE /\ results' = [results EXCEPT ![exIdx] = Err(FlushFailed, outcome)]
              /\ pc' = AfterReturn(exIdx)
              /\ UNCHANGED <<flushed, buffer, elapsed>>
    /\ UNCHANGED <<ports, signal_generators, opened, port, releases, exIdx,
                   command, stale, tx, sent, writes, reads, empty_reads,
                   chunks, last_read>>

\* start_time.elapsed() >= timeout
DeadlineElapsed == elapsed >= timeout

\* The head of the loop as it would be with `break` where the deadline has
\* passed: the code after the loop then returns the buffer as it is.
LoopBreakOnDeadline ==
    /\ pc = "loop"
    /\ IF HasTerminator(buffer) \/ DeadlineElapsed
       THEN /\ results' = [results EXCEPT ![exIdx] = Ok(buffer)]
            /\ pc' = AfterReturn(exIdx)
            /\ elapsed' = 0
       ELSE /\ pc' = "read"
            /\ UNCHANGED <<results, elapsed>>
    /\ UNCHANGED <<ports, signal_generators, opened, port, releases, exIdx,
                   command, stale, tx, sent, wire, buffer, writes, flushes,
                   flushed, reads, empty_reads, chunks, last_read>>

\* The text up to the end of its first terminator.
UpToTerminator(buf) ==
    LET k == CHOOSE i \in 1..(Len(buf) - 1) :
                 /\ SubSeq(buf, i, i + 1) = Terminator
                 /\ \A j \in 1..(i - 1) : SubSeq(buf, j, j + 1) # Terminator
    IN  SubSeq(buf, 1, k + 1)

\* The head of the loop as it would be if it returned one frame: the buffer
\* cut after its first terminator.
LoopTruncates ==
    /\ pc = "loop"
    /\ IF HasTerminator(buffer)
       THEN /\ results' = [results EXCEPT ![exIdx] = Ok(UpToTerminator(buffer))]
            /\ pc' = AfterReturn(exIdx)
            /\ elapsed' = 0
       ELSE IF DeadlineElapsed
            THEN /\ results' = [results EXCEPT ![exIdx] = Err(Timeout, "")]
                 /\ pc' = AfterReturn(exIdx)
                 /\ elapsed' = 0
            ELSE /\ pc' = "read"
                 /\ UNCHANGED <<results, elapsed>>
    /\ UNCHANGED <<ports, signal_generators, opened, port, releases, exIdx,
                   command, stale, tx, sent, wire, buffer, writes, flushes,
                   flushed, reads, empty_reads, chunks, last_read>>

\* The head of the loop as it would be with the deadline tested before the
\* terminator.
LoopDeadlineFirst ==
    /\ pc = "loop"
    /\ IF DeadlineElapsed
       THEN /\ results' = [results EXCEPT ![exIdx] = Err(Timeout, "")]
            /\ pc' = AfterReturn(exIdx)
            /\ elapsed' = 0
       ELSE IF HasTerminator(buffer)
            THEN /\ results' = [results EXCEPT ![exIdx] = Ok(buffer)]
                 /\ pc' = AfterReturn(exIdx)
                 /\ elapsed' = 0
            ELSE /\ pc' = "read"
                 /\ UNCHANGED <<results, elapsed>>
    /\ UNCHANGED <<ports, signal_generators, opened, port, releases, exIdx,
                   command, stale, tx, sent, wire, buffer, writes, flushes,
                   flushed, reads, empty_reads, chunks, last_read>>

\* The head of the while loop: the loop ends with Ok(buffer) when the buffer
\* holds the terminator; otherwise the deadline is tested, and a passed
\* deadline returns the timeout error; otherwise the body reads.  A return
\* drops start_time with the other locals: elapsed is 0 outside the loop.
Loop ==
    /\ pc = "loop"
    /\ IF HasTerminator(buffer)
       THEN /\ results' = [results EXCEPT ![exIdx] = Ok(buffer)]
            /\ pc' = AfterReturn(exIdx)
            /\ elapsed' = 0
       ELSE IF DeadlineElapsed
            THEN /\ results' = [results EXCEPT ![exIdx] = Err(Timeout, "")]
                 /\ pc' = AfterReturn(exIdx)
                 /\ elapsed' = 0
            ELSE /\ pc' = "read"
                 /\ UNCHANGED <<results, elapsed>>
    /\ UNCHANGED <<ports, signal_generators, opened, port, releases, exIdx,
                   command, stale, tx, sent, wire, buffer, writes, flushes,
                   flushed, reads, empty_reads, chunks, last_read>>

\* The test of the error kind as it would be if every kind passed it.
IsTimedOutAlways(kind) == TRUE

\* The test of the error kind as it would be if no kind passed it.
IsTimedOutNever(kind) == FALSE

\* e.kind() == std::io::ErrorKind::TimedOut
IsTimedOut(kind) == kind = "TimedOut"

\* A read call that brings no data may return in no time only MaxReads times
\* in one exchange: the clock advances.
MaySpin(d) == d > 0 \/ reads < MaxReads

\* The read as it would be if the buffer held the latest chunk only.
ReadOverwrites ==
    /\ pc = "read"
    /\ reads' = reads + 1
    /\ \E d \in {0, TickMs} :
         \/ \E n \in 1..Min(Len(wire), temp_buffer_len) :
              /\ wire' = SubSeq(wire, n + 1, Len(wire))
              /\ buffer' = from_utf8_lossy(SubSeq(wire, 1, n))
              /\ chunks' = [chunks EXCEPT ![exIdx] = Append(@, SubSeq(wire, 1, n))]
              /\ elapsed' = elapsed + d
              /\ last_read' = "data"
              /\ pc' = "loop"
              /\ UNCHANGED <<results, empty_reads>>
         \/ /\ MaySpin(d)
            /\ elapsed' = elapsed + d
            /\ empty_reads' = empty_reads + 1
            /\ last_read' = "zero"
            /\ pc' = "loop"
            /\ UNCHANGED <<wire, buffer, chunks, results>>
         \/ \E kind \in ErrorKinds :
              /\ last_read' = kind
              /\ IF IsTimedOut(kind)
                 THEN /\ MaySpin(d)
                      /\ elapsed' = elapsed + d
                      /\ empty_reads' = empty_reads + 1
                      /\ pc' = "loop"
                      /\ UNCHANGED results
                 ELSE /\ results' = [results EXCEPT ![exIdx] = Err(ReadFailed, kind)]
                      /\ pc' = AfterReturn(exIdx)
                      /\ elapsed' = 0
                      /\ UNCHANGED empty_reads
              /\ UNCHANGED <<wire, buffer, chunks>>
    /\ UNCHANGED <<ports, signal_generators, opened, port, releases, exIdx,
                   command, stale, tx, sent, writes, flushes, flushed>>

\* The read as it would be if a read of zero bytes emptied the buffer.
ReadZeroClears ==
    /\ pc = "read"
    /\ reads' = reads + 1
    /\ \E d \in {0, TickMs} :
         \/ \E n \in 1..Min(Len(wire), temp_buffer_len) :
              /\ wire' = SubSeq(wire, n + 1, Len(wire))
              /\ buffer' = buffer \o from_utf8_lossy(SubSeq(wire, 1, n))
              /\ chunks' = [chunks EXCEPT ![exIdx] = Append(@, SubSeq(wire, 1, n))]
              /\ elapsed' = elapsed + d
              /\ last_read' = "data"
              /\ pc' = "loop"
              /\ UNCHANGED <<results, empty_reads>>
         \/ /\ MaySpin(d)
            /\ elapsed' = elapsed + d
            /\ empty_reads' = empty_reads + 1
            /\ last_read' = "zero"
            /\ pc' = "loop"
            /\ buffer' = <<>>
            /\ UNCHANGED <<wire, chunks, results>>
         \/ \E kind \in ErrorKinds :
              /\ last_read' = kind
              /\ IF IsTimedOut(kind)
                 THEN /\ MaySpin(d)
                      /\ elapsed' = elapsed + d
                      /\ empty_reads' = empty_reads + 1
                      /\ pc' = "loop"
                      /\ UNCHANGED results
                 ELSE /\ results' = [results EXCEPT ![exIdx] = Err(ReadFailed, kind)]
                      /\ pc' = AfterReturn(exIdx)
                      /\ elapsed' = 0
                      /\ UNCHANGED empty_reads
              /\ UNCHANGED <<wire, buffer, chunks>>
    /\ UNCHANGED <<ports, signal_generators, opened, port, releases, exIdx,
                   command, stale, tx, sent, writes, flushes, flushed>>

\* port.read(&mut temp_buffer) and the match on its result.  The call takes
\* d milliseconds and returns some of the waiting bytes (at most the scratch
\* chunk), zero bytes, or an error; a timed-out read continues the loop, any
\* other error returns the read error (and drops start_time).
Read ==
    /\ pc = "read"
    /\ reads' = reads + 1
    /\ \E d \in {0, TickMs} :
         \/ \E n \in 1..Min(Len(wire), temp_buffer_len) :
              /\ wire' = SubSeq(wire, n + 1, Len(wire))
              /\ buffer' = buffer \o from_utf8_lossy(SubSeq(wire, 1, n))
              /\ chunks' = [chunks EXCEPT ![exIdx] = Append(@, SubSeq(wire, 1, n))]
              /\ elapsed' = elapsed + d
              /\ last_read' = "data"
              /\ pc' = "loop"
              /\ UNCHANGED <<results, empty_reads>>
         \/ /\ MaySpin(d)
            /\ elapsed' = elapsed + d
            /\ empty_reads' = empty_reads + 1
            /\ last_read' = "zero"
            /\ pc' = "loop"
            /\ UNCHANGED <<wire, buffer, chunks, results>>
         \/ \E kind \in ErrorKinds :
              /\ last_read' = kind
              /\ IF IsTimedOut(kind)
                 THEN /\ MaySpin(d)
                      /\ elapsed' = elapsed + d
                      /\ empty_reads' = empty_reads + 1
                      /\ pc' = "loop"
                      /\ UNCHANGED results
                 ELSE /\ results' = [results EXCEPT ![exIdx] = Err(ReadFailed, kind)]
                      /\ pc' = AfterReturn(exIdx)
                      /\ elapsed' = 0
                      /\ UNCHANGED empty_reads
              /\ UNCHANGED <<wire, buffer, chunks>>
    /\ UNCHANGED <<ports, signal_generators, opened, port, releases, exIdx,
                   command, stale, tx, sent, writes, flushes, flushed>>

\* ------------------------------------------------------------ end of main
\* std::thread::sleep(Duration::from_secs(20))
Sleep ==
    /\ pc = "sleep"
    /\ pc' = "disconnect"
    /\ UNCHANGED <<ports, signal_generators, opened, port, releases, exIdx,
                   command, stale, tx, sent, wire, buffer, elapsed, results,
                   writes, flushes, flushed, reads, empty_reads, chunks,
                   last_read>>

\* disconnect as it would be if it borrowed the handle: nothing is dropped.
DisconnectKeepsPort ==
    /\ pc = "disconnect"
    /\ pc' = "done"
    /\ UNCHANGED <<ports, signal_generators, opened, port, releases, exIdx,
                   command, stale, tx, sent, wire, buffer, elapsed, results,
                   writes, flushes, flushed, reads, empty_reads, chunks,
                   last_read>>

\* disconnect(port): the handle is dropped.
Disconnect ==
    /\ pc = "disconnect"
    /\ port' = "released"
    /\ releases' = releases + 1
    /\ pc' = "done"
    /\ UNCHANGED <<ports, signal_generators, opened, exIdx, command, stale,
                   tx, sent, wire, buffer, elapsed, results, writes, flushes,
                   flushed, reads, empty_reads, chunks, last_read>>

Next ==
    \/ Autodetect
    \/ Connect
    \/ Call
    \/ Write
    \/ Flush
    \/ Loop
    \/ Read
    \/ Sleep
    \/ Disconnect

Spec == Init /\ [][Next]_vars

\* main runs on: every step it can take it eventually takes.
LiveSpec == Spec /\ WF_vars(Next)

\* ------------------------------------------------------------- the encoder
\* The f32 values given to the encoder: the multiples of 1/8 up to the bound,
\* of both signs (the two zeros included), the infinities and NaN.
Values ==
    { F32(n, m) : n \in BOOLEAN, m \in 0..MaxEighths }
        \cup { INFINITY, NEG_INFINITY, NAN }

\* k arguments that start at v: a finite v is followed by v + 1, v + 2, ... (so
\* that every position has a value of its own), another v is repeated.
Arguments(v, k) ==
    [i \in 1..k |-> IF v.cls = "finite" THEN F32(v.neg, v.mag + 8 * (i - 1)) ELSE v]

\* The commands given to the encoder: every variant, the numeric ones with the
\* values above.
Commands ==
    { GetIdentity, GetVersion, ClearErrors, GetFrequency, GetPaPower,
      GetPowerSetpoint, DllEnable, DllDisable, RfEnable, RfDisable }
        \cup { GetStatus(b) : b \in BOOLEAN }
        \cup { SetFrequency(v) : v \in Values }
        \cup { SetPower(v) : v \in Values }
        \cup { LET a == Arguments(v, 6) IN
               ConfigureDll(a[1], a[2], a[3], a[4], a[5], a[6]) : v \in Values }
        \cup { LET a == Arguments(v, 4) IN
               SweepDbm(a[1], a[2], a[3], a[4]) : v \in Values }

\* A caller holds a command it has built; nothing else has happened.
EncInit ==
    /\ pc = "encode"
    /\ command \in Commands
    /\ ports = <<>>
    /\ signal_generators = <<>>
    /\ opened = <<>>
    /\ port = "none"
    /\ releases = 0
    /\ exIdx = 0
    /\ tx = <<>>
    /\ sent = <<>>
    /\ stale = 0
    /\ wire = <<>>
    /\ buffer = <<>>
    /\ elapsed = 0
    /\ results = [i \in Exchanges |-> NoResult]
    /\ writes = 0
    /\ flushes = 0
    /\ flushed = {}
    /\ reads = 0
    /\ empty_reads = 0
    /\ chunks = [i \in Exchanges |-> <<>>]
    /\ last_read = "none"

\* command.to_string()
Encode ==
    /\ pc = "encode"
    /\ tx' = to_string(command)
    /\ pc' = "encoded"
    /\ UNCHANGED <<ports, signal_generators, opened, port, releases, exIdx,
                   command, stale, sent, wire, buffer, elapsed, results,
                   writes, flushes, flushed, reads, empty_reads, chunks,
                   last_read>>

EncNext == Encode

EncSpec == EncInit /\ [][EncNext]_vars

\* ------------------------------------------------------ history predicates
\* write_all accepted the frame of exchange i.
Accepted(i) == \E k \in 1..Len(sent) : sent[k].ex = i

\* The text a sequence of chunks appends to the buffer: each chunk decoded on
\* its own, in order.
RECURSIVE LossyConcat(_)
LossyConcat(chunkSeq) ==
    IF chunkSeq = <<>> THEN <<>>
    ELSE from_utf8_lossy(Head(chunkSeq)) \o LossyConcat(Tail(chunkSeq))

InReadLoop == pc \in {"loop", "read"}

\* The step is a read call.
ReadStep == pc = "read" /\ reads' = reads + 1

\* ------------------------------------------------------------------ claims
\* C1: a read that fails with ErrorKind::TimedOut never ends the exchange: no
\* result is returned and the buffer is unchanged, control goes back to the
\* head of the loop, and the head reads again unless the terminator is in the
\* buffer or the deadline has passed.  The read loop is left only with
\* Ok(buffer) when the buffer holds the terminator, with the timeout error
\* when the deadline has passed, or with the read error on a read error of
\* another kind.
C1_TimedOutReadContinues ==
    [][ /\ (ReadStep /\ last_read' = "TimedOut")
            => (pc' = "loop" /\ results' = results /\ buffer' = buffer)
        /\ (pc = "loop" /\ ~contains(buffer, <<CR, LF>>) /\ elapsed < timeout)
            => pc' = "read"
        /\ (InReadLoop /\ pc' \notin {"loop", "read"})
            => \/ /\ pc = "loop"
                  /\ contains(buffer, <<CR, LF>>)
                  /\ results'[exIdx] = Ok(buffer)
               \/ /\ pc = "loop"
                  /\ elapsed >= timeout
                  /\ results'[exIdx] = Err(Timeout, "")
               \/ /\ pc = "read"
                  /\ last_read' \in ErrorKinds \ {"TimedOut"}
                  /\ results'[exIdx] = Err(ReadFailed, last_read')
      ]_vars

\* C1 witness: after a timed-out read the loop was re-entered and the next
\* read is about to be made.
C1_Witness ==
    pc = "read" /\ last_read = "TimedOut" /\ reads >= 1 /\ results[exIdx] = NoResult

\* C2: a failed write returns the write error with no flush and no read made;
\* a failed flush returns the flush error with no read made; a read is made
\* only when the write and the flush of the exchange both succeeded.
C2_NoReadAfterFailedWriteOrFlush ==
    exIdx >= 1 =>
        /\ (writes = 1 /\ pc # "write" /\ ~Accepted(exIdx))
            => (results[exIdx].msg = WriteFailed /\ flushes = 0 /\ reads = 0)
        /\ (flushes = 1 /\ pc # "flush" /\ exIdx \notin flushed)
            => (results[exIdx].msg = FlushFailed /\ reads = 0)
        /\ results[exIdx].msg = WriteFailed => (flushes = 0 /\ reads = 0)
        /\ results[exIdx].msg = FlushFailed => reads = 0
        /\ (reads > 0 \/ pc = "read") => (Accepted(exIdx) /\ exIdx \in flushed)

\* C2 witness: both failures have happened in one session, the write of the
\* first exchange and the flush of the second.
C2_Witness ==
    /\ exIdx = 2
    /\ results[1].msg = WriteFailed
    /\ results[2].msg = FlushFailed
    /\ reads = 0

\* Exchange i met no fault and was given no terminator: its write and its
\* flush succeeded, its latest read raised no error of a kind other than
\* TimedOut, and the bytes it read hold no "\r\n".
NoFaultNoTerminator(i) ==
    /\ Accepted(i)
    /\ i \in flushed
    /\ last_read \notin ErrorKinds \ {"TimedOut"}
    /\ ~contains(Concat(chunks[i]), <<CR, LF>>)

\* C3: every exchange that is called returns, and it returns the timeout
\* error when the transport gave it no terminator and no fault, whatever mix
\* of chunks, zero-byte reads and timed-out reads it gave instead.
C3_NoTerminatorTimesOut ==
    \A i \in Exchanges :
        (exIdx = i /\ pc = "write")
            ~> (/\ exIdx = i
                /\ results[i] # NoResult
                /\ NoFaultNoTerminator(i) => results[i] = Err(Timeout, ""))

\* C3 witness: an exchange has returned the timeout error after reading data
\* without a terminator and after several reads that brought nothing.
C3_Witness ==
    /\ exIdx >= 1
    /\ results[exIdx] = Err(Timeout, "")
    /\ chunks[exIdx] # <<>>
    /\ empty_reads >= 2
    /\ last_read = "TimedOut"

\* Every byte of every chunk is ASCII.
AllAscii(chunkSeq) == \A j \in 1..Len(chunkSeq) : \A n \in 1..Len(chunkSeq[j]) : chunkSeq[j][n] < 128

\* C4: an exchange that returns Ok after k chunks returns the k chunks
\* concatenated in the order read, the terminator included (each chunk as
\* from_utf8_lossy decodes it, which for ASCII chunks is the bytes read); the
\* terminator was completed by the k-th chunk and not before, the read that
\* brought the k-th chunk was the last read made, and the read calls number k
\* plus the reads that brought nothing: exactly k when every read brought a
\* chunk.
C4_SplitReplyReadExactly ==
    (exIdx >= 1 /\ results[exIdx].tag = "Ok") =>
        LET cs == chunks[exIdx]
            k == Len(cs)
        IN  /\ k >= 1
            /\ results[exIdx].text = LossyConcat(cs)
            /\ AllAscii(cs) => results[exIdx].text = Concat(cs)
            /\ contains(LossyConcat(cs), <<CR, LF>>)
            /\ ~contains(LossyConcat(SubSeq(cs, 1, k - 1)), <<CR, LF>>)
            /\ last_read = "data"
            /\ reads = k + empty_reads

\* C4 witness: a reply read in four chunks, the fourth completing the
\* terminator, with four read calls in all.
C4_Witness ==
    /\ exIdx >= 1
    /\ results[exIdx].tag = "Ok"
    /\ Len(chunks[exIdx]) = 4
    /\ AllAscii(chunks[exIdx])
    /\ reads = 4
    /\ empty_reads = 0

\* C5: a successful response holds the terminator "\r\n".
C5_OkHasTerminator ==
    \A i \in Exchanges :
        results[i].tag = "Ok" => contains(results[i].text, <<CR, LF>>)

\* C5 witness: a success after reads of every kind that does not end the
\* exchange: chunks, and reads that brought nothing.
C5_Witness ==
    /\ exIdx >= 1
    /\ results[exIdx].tag = "Ok"
    /\ Len(chunks[exIdx]) >= 2
    /\ empty_reads >= 2

\* C6: a read error of a kind other than TimedOut ends the exchange at once
\* with the read error, which is not the timeout error, whatever the buffer
\* holds, and no read follows it.
C6_ReadFaultAborts ==
    last_read \in ErrorKinds \ {"TimedOut"} =>
        /\ results[exIdx] = Err(ReadFailed, last_read)
        /\ results[exIdx].msg # Timeout
        /\ pc \notin {"write", "flush", "loop", "read"}

\* C6 witness: the read error came when the buffer already held data.
C6_Witness ==
    /\ last_read = "BrokenPipe"
    /\ results[exIdx].msg = ReadFailed
    /\ buffer # <<>>
    /\ chunks[exIdx] # <<>>

\* C7, as claimed: every exchange that returns an error other than the
\* timeout error did not complete its write.
C7_OnlyTimeoutHasWritten ==
    \A i \in Exchanges :
        (results[i].tag = "Err" /\ results[i].msg # Timeout) => ~Accepted(i)

\* C7, amended: the write error is the only error of an exchange whose write
\* did not succeed.  An exchange that returns the write error did not
\* complete its write; one that returns the flush error, the read error or
\* the timeout error did, and for the read error and the timeout error the
\* flush succeeded as well.
C7_OnlyWriteFailedHasNotWritten ==
    \A i \in Exchanges :
        /\ results[i].msg = WriteFailed => ~Accepted(i)
        /\ results[i].msg \in {FlushFailed, ReadFailed, Timeout} => Accepted(i)
        /\ results[i].msg \in {ReadFailed, Timeout} => i \in flushed
        /\ results[i].tag = "Err"
            => results[i].msg \in {WriteFailed, FlushFailed, ReadFailed, Timeout}

\* C7 witness: one session with the read error after a completed write and
\* the write error.
C7_Witness ==
    /\ results[1].msg = ReadFailed
    /\ Accepted(1)
    /\ results[2].msg = WriteFailed
    /\ ~Accepted(2)

\* The transport answered the two exchanges alike: the same outcome of the
\* write and of the flush, the same chunks in the same order, and the same
\* kind of error, if any.
SameAnswers ==
    /\ Accepted(1) <=> Accepted(2)
    /\ (1 \in flushed) <=> (2 \in flushed)
    /\ chunks[1] = chunks[2]
    /\ results[1].kind = results[2].kind

\* C8: two exchanges that the transport answered alike return identical
\* results, and the buffer of every call is empty when its first read is
\* about to be made: what a call accumulated is not in the buffer of the
\* next.
C8_RepeatedExchangeIdentical ==
    /\ (results[1] # NoResult /\ results[2] # NoResult /\ SameAnswers)
        => results[1] = results[2]
    /\ (InReadLoop /\ reads = 0) => buffer = <<>>
    /\ \A i \in Exchanges :
        results[i].tag = "Ok" => results[i].text = LossyConcat(chunks[i])

\* C8 witness: both exchanges were answered with the same chunks and returned
\* the same successful response.
C8_Witness ==
    /\ results[1].tag = "Ok"
    /\ results[2].tag = "Ok"
    /\ chunks[1] = chunks[2]
    /\ Len(chunks[1]) >= 2
    /\ results[1] = results[2]

\* C9: a session that opened the transport releases it, once, by the
\* disconnect that is its last step: the handle is released exactly in the
\* final state, a session that ends elsewhere never held it, writes, flushes
\* and reads happen only while it is open, and no step follows the release.
C9_ReleasedOnceAtEnd ==
    /\ [](/\ releases <= 1
          /\ port = "released" <=> pc = "done"
          /\ pc = "done" => releases = 1
          /\ pc \in {"returned", "exit"} => port = "none"
          /\ pc \in {"write", "flush", "loop", "read"} => port = "open")
    /\ [][port # "released"]_vars
    /\ (port = "open") ~> (port = "released" /\ releases = 1)

\* C9 witness: the transport was released after both exchanges had failed.
C9_Witness ==
    /\ pc = "done"
    /\ port = "released"
    /\ results[1].tag = "Err"
    /\ results[2].tag = "Err"

\* C10: once connected the session calls write_read for SetFrequency(50.)
\* and then for GetFrequency, whatever the first call returned, and then
\* reaches the disconnect: when an exchange returns, with whatever result,
\* main goes on to its next statement.
C10_FailureNeverAborts ==
    /\ [](/\ exIdx = 1
              => tx = <<"$", "F", "C", "S", ",", "0", ",", "5", "0", ".", "0", "0">>
          /\ exIdx = 2
              => (tx = <<"$", "F", "C", "G", ",", "0">> /\ results[1] # NoResult)
          /\ pc \in {"sleep", "disconnect", "done"}
              => (exIdx = 2 /\ results[2] # NoResult)
          /\ pc = "returned" => exIdx = 0)
    /\ [][ /\ (results[1] = NoResult /\ results'[1] # NoResult) => pc' = "call"
           /\ (results[2] = NoResult /\ results'[2] # NoResult) => pc' = "sleep"
           /\ exIdx' # exIdx => (exIdx' = exIdx + 1 /\ pc' = "write")
       ]_vars
    /\ (pc = "call" /\ exIdx = 0)
        ~> (pc = "done" /\ results[1] # NoResult /\ results[2] # NoResult)

\* C10 witness: the session is over, and both its exchanges failed, each in
\* another way.
C10_Witness ==
    /\ pc = "done"
    /\ results[1].msg = Timeout
    /\ results[2].msg = ReadFailed

\* An endpoint is a USB port with the vendor and product of the instrument.
Matches(p) == p.usb = TRUE /\ p.vid = TARGET_VENDOR_ID /\ p.pid = TARGET_PRODUCT_ID

\* The positions of the matching endpoints of a list.
MatchingPositions(ps) == { i \in 1..Len(ps) : Matches(ps[i]) }

\* C11: a session that found no matching endpoint, or could not open the
\* first one, ends with no exchange called, no write, flush or read made and
\* no disconnect; so does one whose enumeration failed.  The candidates are
\* the matching endpoints in the order listed, the first of them is the
\* first match of the list, and open is attempted on it and on no other.
C11_NoDeviceNoExchange ==
    /\ [](/\ pc \in {"returned", "exit"}
              => /\ exIdx = 0
                 /\ sent = <<>>
                 /\ wire = <<>>
                 /\ writes = 0 /\ flushes = 0 /\ reads = 0
                 /\ releases = 0
                 /\ port = "none"
          /\ Len(opened) <= 1
          /\ port # "none" => Len(opened) = 1)
    /\ [][ /\ (pc = "autodetect" /\ pc' = "connect")
               => LET pos == MatchingPositions(ports) IN
                  /\ Len(signal_generators') = Cardinality(pos)
                  /\ \A k \in 1..Len(signal_generators') :
                        Matches(signal_generators'[k])
                  /\ pos # {}
                      => signal_generators'[1]
                           = ports[CHOOSE i \in pos : \A j \in pos : i <= j]
           /\ (pc = "connect" /\ signal_generators = <<>>)
               => (pc' = "returned" /\ opened' = <<>> /\ port' = "none")
           /\ (pc = "connect" /\ signal_generators # <<>>)
               => /\ opened' = <<signal_generators[1].port_name>>
                  /\ \/ pc' = "call" /\ port' = "open"
                     \/ pc' = "returned" /\ port' = "none"
           /\ pc \notin {"returned", "exit"}
       ]_vars

\* C11 witness: the first match was the second endpoint listed, it could not
\* be opened, and the session has ended.
C11_Witness ==
    /\ pc = "returned"
    /\ opened = <<2>>
    /\ port = "none"
    /\ exIdx = 0

\* The prefix token of each variant in the table of command strings.
PrefixToken(tag) ==
    CASE tag = "GetIdentity" -> <<"$", "I", "D", "N">>
      [] tag = "GetVersion" -> <<"$", "V", "E", "R">>
      [] tag = "GetStatus" -> <<"$", "S", "T">>
      [] tag = "ClearErrors" -> <<"$", "E", "R", "R", "C">>
      [] tag = "GetFrequency" -> <<"$", "F", "C", "G">>
      [] tag = "SetFrequency" -> <<"$", "F", "C", "S">>
      [] tag = "GetPaPower" -> <<"$", "P", "P", "G">>
      [] tag = "GetPowerSetpoint" -> <<"$", "P", "W", "R", "G">>
      [] tag = "SetPower" -> <<"$", "P", "W", "R", "S">>
      [] tag \in {"ConfigureDll", "DllEnable", "DllDisable"} -> <<"$", "D", "L", "E", "S">>
      [] tag \in {"RfEnable", "RfDisable"} -> <<"$", "E", "C", "S">>
      [] tag = "SweepDbm" -> <<"$", "S", "W", "P", "D">>

\* The constant field that follows the channel selector, if the table has one.
ConstantField(c) ==
    CASE c.tag = "GetStatus" /\ c.verbose -> <<",", "1">>
      [] c.tag \in {"DllEnable", "RfEnable"} -> <<",", "1">>
      [] c.tag \in {"DllDisable", "RfDisable"} -> <<",", "0">>
      [] OTHER -> <<>>

\* The pieces of a text between its commas.
RECURSIVE SplitAtCommas(_)
SplitAtCommas(s) ==
    IF \A i \in 1..Len(s) : s[i] # ","
    THEN <<s>>
    ELSE LET k == CHOOSE i \in 1..Len(s) :
                      s[i] = "," /\ \A j \in 1..(i - 1) : s[j] # ","
         IN  <<SubSeq(s, 1, k - 1)>> \o SplitAtCommas(SubSeq(s, k + 1, Len(s)))

\* C12: encoding never fails and gives the string of the table: the prefix
\* token of the variant, the channel selector ",0", then the constant field
\* of the variant or its numeric fields in the order of the variant's
\* arguments, and for SweepDbm a closing ",0"; the output depends on the
\* command alone and holds neither a carriage return nor a line feed.
C12_EncodesTheTable ==
    pc = "encoded" =>
        LET pieces == SplitAtCommas(tx)
            n == Len(command.f)
        IN  /\ command \in Commands
            /\ SubSeq(tx, 1, Len(PrefixToken(command.tag)) + 2)
                 = PrefixToken(command.tag) \o <<",", "0">>
            /\ pieces[1] = PrefixToken(command.tag)
            /\ pieces[2] = <<"0">>
            /\ n = 0 => tx = PrefixToken(command.tag) \o <<",", "0">> \o ConstantField(command)
            /\ n > 0 =>
                 /\ Len(pieces) = 2 + n + (IF command.tag = "SweepDbm" THEN 1 ELSE 0)
                 /\ \A i \in 1..n : pieces[2 + i] = Fmt2(command.f[i])
                 /\ command.tag = "SweepDbm" => pieces[Len(pieces)] = <<"0">>
            /\ command = GetStatus(TRUE) => tx = <<"$", "S", "T", ",", "0", ",", "1">>
            /\ command = GetStatus(FALSE) => tx = <<"$", "S", "T", ",", "0">>
            /\ command = DllEnable => tx = <<"$", "D", "L", "E", "S", ",", "0", ",", "1">>
            /\ command = DllDisable => tx = <<"$", "D", "L", "E", "S", ",", "0", ",", "0">>
            /\ command = RfEnable => tx = <<"$", "E", "C", "S", ",", "0", ",", "1">>
            /\ command = RfDisable => tx = <<"$", "E", "C", "S", ",", "0", ",", "0">>
            /\ \A i \in 1..Len(tx) : tx[i] \notin {"\r", "\n"}
            /\ \A d \in Commands : d = command => to_string(d) = tx

\* SweepDbm { 1, 2, 3, 4 } has been encoded as "$SWPD,0,1.00,2.00,3.00,4.00,0".
C12_Witness ==
    /\ pc = "encoded"
    /\ command = SweepDbm(F32(FALSE, 8), F32(FALSE, 16), F32(FALSE, 24), F32(FALSE, 32))
    /\ tx = <<"$", "S", "W", "P", "D", ",", "0",
              ",", "1", ".", "0", "0", ",", "2", ".", "0", "0",
              ",", "3", ".", "0", "0", ",", "4", ".", "0", "0", ",", "0">>

\* A text of the form [-]d...d.dd: an optional sign, at least one digit, a
\* point and exactly two digits.
TwoDecimals(s) ==
    LET body == IF s # <<>> /\ s[1] = "-" THEN Tail(s) ELSE s
        IsDigit(ch) == \E i \in 1..10 : Digit[i] = ch
    IN  /\ Len(body) >= 4
        /\ body[Len(body) - 2] = "."
        /\ \A i \in 1..Len(body) : i # Len(body) - 2 => IsDigit(body[i])

\* C13: every numeric field of an encoded command has exactly two digits
\* after the decimal point, whatever the value: SetFrequency(50) is
\* "$FCS,0,50.00" and ConfigureDll { 1, 2, 3, 4, 5, 6 } is
\* "$DLES,0,1.00,2.00,3.00,4.00,5.00,6.00".
C13_TwoDecimalsAlways ==
    pc = "encoded" =>
        LET pieces == SplitAtCommas(tx) IN
        /\ Len(pieces) >= 2 + Len(command.f)
        /\ \A i \in 1..Len(command.f) : TwoDecimals(pieces[2 + i])
        /\ command = SetFrequency(F32(FALSE, 400))
             => tx = <<"$", "F", "C", "S", ",", "0", ",", "5", "0", ".", "0", "0">>
        /\ command = ConfigureDll(F32(FALSE, 8), F32(FALSE, 16), F32(FALSE, 24),
                                  F32(FALSE, 32), F32(FALSE, 40), F32(FALSE, 48))
             => tx = <<"$", "D", "L", "E", "S", ",", "0",
                       ",", "1", ".", "0", "0", ",", "2", ".", "0", "0",
                       ",", "3", ".", "0", "0", ",", "4", ".", "0", "0",
                       ",", "5", ".", "0", "0", ",", "6", ".", "0", "0">>

\* The frames of the session, byte by byte: "$FCS,0,50.00\r\n" and "$FCG,0\r\n".
SessionFrames ==
    << <<36, 70, 67, 83, 44, 48, 44, 53, 48, 46, 48, 48, 13, 10>>,
       <<36, 70, 67, 71, 44, 48, 13, 10>> >>

\* C14: within one exchange the order is write, flush, reads.  The frame
\* written is the command string followed by one "\r\n" and nothing else; it
\* is written at most once in an exchange, before the flush, and once the
\* first read has been attempted nothing is written or flushed any more.
C14_WriteFlushThenReads ==
    /\ [](/\ writes <= 1 /\ flushes <= 1
          /\ flushes > 0 => writes = 1
          /\ reads > 0 => (writes = 1 /\ flushes = 1 /\ exIdx \in flushed)
          /\ pc \in {"loop", "read"} => (writes = 1 /\ flushes = 1)
          /\ \A k \in 1..Len(sent) :
                /\ sent[k].ex \in Exchanges
                /\ sent[k].frame = SessionFrames[sent[k].ex]
                /\ sent[k].frame = as_bytes(tx) \o <<CR, LF>> \/ sent[k].ex < exIdx
                /\ \A j \in 1..Len(sent) : sent[j].ex = sent[k].ex => j = k)
    /\ [][ /\ (sent' # sent \/ writes' > writes)
               => (pc = "write" /\ writes = 0 /\ flushes = 0 /\ reads = 0 /\ reads' = 0)
           /\ flushes' > flushes
               => (pc = "flush" /\ writes = 1 /\ flushes = 0 /\ reads = 0 /\ reads' = 0
                   /\ sent' = sent)
           /\ reads' > reads
               => (pc = "read" /\ sent' = sent /\ writes' = writes /\ flushes' = flushes)
       ]_vars

\* The second exchange has written and flushed its frame once and has read
\* three times.
C14_Witness ==
    /\ exIdx = 2
    /\ pc = "loop"
    /\ reads = 3
    /\ writes = 1 /\ flushes = 1
    /\ Len(sent) = 2
    /\ sent[2] = [ex |-> 2, frame |-> SessionFrames[2]]

\* The text holds a carriage return followed at once by a line feed.
HoldsCrLf(s) == \E k \in 1..(Len(s) - 1) : s[k] = CR /\ s[k + 1] = LF

\* The exchange returns the timeout error in this step.
ReturnsTimeout ==
    \E i \in Exchanges :
        /\ results[i].tag = "None"
        /\ results'[i].tag = "Err"
        /\ results'[i].msg = "Timeout while waiting for response."

\* C15: the timeout error comes only from the test at the head of the loop,
\* before a read attempt, and only when the time since the loop began has
\* reached the frame timeout and the buffer holds no terminator.  The
\* terminator is tested first: with "\r\n" in the buffer the exchange returns
\* the buffer as success even when the deadline has passed.  Before the
\* deadline the timeout error is never returned.
C15_TimeoutOnlyAtDeadline ==
    [][ /\ ReturnsTimeout
            => /\ pc = "loop"
               /\ elapsed >= timeout
               /\ ~HoldsCrLf(buffer)
               /\ reads' = reads /\ wire' = wire
        /\ (pc \in {"loop", "read"} /\ elapsed < timeout) => ~ReturnsTimeout
        /\ (pc = "loop" /\ HoldsCrLf(buffer))
            => /\ results' = [results EXCEPT ![exIdx] = Ok(buffer)]
               /\ pc' \notin {"loop", "read"}
        /\ (pc = "loop" /\ ~HoldsCrLf(buffer) /\ elapsed >= timeout)
            => ReturnsTimeout
      ]_vars

\* The deadline has passed during the read that completed the terminator: the
\* head of the loop is reached with "\r\n" in the buffer.
C15_Witness ==
    /\ pc = "loop"
    /\ exIdx = 1
    /\ last_read = "data"
    /\ HoldsCrLf(buffer)
    /\ elapsed >= timeout

\* The exchange returned the timeout error.
TimedOut(i) ==
    results[i].tag = "Err" /\ results[i].msg = "Timeout while waiting for response."

\* Every byte exchange i read was waiting on the handle before i was called.
ReadOnlyStaleBytes(i) ==
    /\ exIdx = i
    /\ chunks[i] # <<>>
    /\ Len(Concat(chunks[i])) <= stale

\* C16: nothing drains or resets the handle between exchanges.  The bytes
\* that wait on the handle leave it only through a read, oldest first, and a
\* call or a return takes none away; so the bytes a timed-out exchange left
\* unread are the first the next exchange reads, and that exchange can return
\* them as its success.  In the session SetFrequency, GetFrequency such a
\* state is reachable.
C16_StaleBytesSurvive ==
    /\ [](/\ stale <= Len(Concat(chunks[2])) + Len(wire) \/ exIdx < 2
          /\ exIdx <= 1 => stale = 0
          /\ \A i \in Exchanges :
                (results[i].tag = "Ok" /\ ReadOnlyStaleBytes(i))
                    => results[i].text = LossyConcat(chunks[i]))
    /\ [][ /\ pc = "call" => (wire' = wire /\ stale' = Len(wire))
           /\ pc # "call" => stale' = stale
           /\ wire' # wire
               => \/ pc = "flush" /\ SubSeq(wire', 1, Len(wire)) = wire
                  \/ /\ pc = "read"
                     /\ chunks'[exIdx] # chunks[exIdx]
                     /\ wire = chunks'[exIdx][Len(chunks'[exIdx])] \o wire'
           /\ (pc \in {"loop", "read"} /\ results' # results) => wire' = wire
       ]_vars

\* SetFrequency has timed out, and GetFrequency has returned success with
\* nothing but bytes that were waiting when it was called.
C16_Witness ==
    /\ TimedOut(1)
    /\ results[2].tag = "Ok"
    /\ ReadOnlyStaleBytes(2)
    /\ results[2].text = LossyConcat(chunks[2])
    /\ results[2].text # <<>>

\* The last two chunks of exchange i split the terminator: the one before the
\* last ends with a carriage return, the last begins with a line feed, and
\* no chunk holds the terminator by itself.
TerminatorSplit(i) ==
    LET cs == chunks[i]
        k == Len(cs)
    IN  /\ k >= 2
        /\ cs[k - 1][Len(cs[k - 1])] = CR
        /\ cs[k][1] = LF
        /\ \A j \in 1..k : ~contains(cs[j], <<CR, LF>>)

\* C17: the terminator is looked for in the accumulated buffer and not in the
\* chunks.  When a chunk that ends with "\r" is followed by a chunk that
\* begins with "\n", the exchange returns success at once after the second
\* of these reads, and the response holds both chunks, concatenated; while
\* only the "\r" is there the exchange does not return success.
C17_TerminatorAcrossChunks ==
    /\ [](\A i \in Exchanges :
            /\ (pc = "loop" /\ exIdx = i /\ TerminatorSplit(i))
                => /\ HoldsCrLf(buffer)
                   /\ last_read = "data"
                   /\ LET k == Len(chunks[i])
                          both == from_utf8_lossy(chunks[i][k - 1])
                                      \o from_utf8_lossy(chunks[i][k])
                      IN  /\ Len(buffer) >= Len(both)
                          /\ SubSeq(buffer, Len(buffer) - Len(both) + 1, Len(buffer)) = both
            /\ (results[i].tag = "Ok" /\ TerminatorSplit(i))
                => /\ results[i].text = LossyConcat(chunks[i])
                   /\ HoldsCrLf(results[i].text))
    /\ [][ /\ (pc = "loop" /\ TerminatorSplit(exIdx))
               => /\ results' = [results EXCEPT ![exIdx] = Ok(buffer)]
                  /\ reads' = reads
           /\ (pc = "loop" /\ ~HoldsCrLf(buffer)) => results'[exIdx].tag # "Ok"
       ]_vars

\* The first exchange read "\r", then "\nB", and returned "\r\nB".
C17_Witness ==
    /\ results[1] = Ok(<<CR, LF, 66>>)
    /\ chunks[1] = << <<CR>>, <<LF, 66>> >>
    /\ TerminatorSplit(1)

\* C18: a successful exchange returns every chunk it read, in the order read
\* and whole (each chunk as from_utf8_lossy decodes it, which for ASCII is
\* the bytes read): what follows the first terminator in the last chunk is
\* part of the response.  A return puts nothing back on the handle and keeps
\* nothing for later: the next exchange starts with no chunk, and the chunks
\* and the result of a finished exchange do not change any more.
C18_ResponseIsAllChunks ==
    /\ [](\A i \in Exchanges :
            results[i].tag = "Ok"
                => /\ chunks[i] # <<>>
                   /\ results[i].text = LossyConcat(chunks[i])
                   /\ AllAscii(chunks[i]) => results[i].text = Concat(chunks[i])
                   /\ Len(results[i].text) >= Len(chunks[i]))
    /\ [][ /\ (pc \in {"loop", "read"} /\ results' # results)
               => (wire' = wire /\ chunks' = chunks)
           /\ (pc = "loop" /\ results'[exIdx].tag = "Ok")
               => results'[exIdx].text = buffer
           /\ pc = "call" => (chunks' = chunks /\ chunks[exIdx'] = <<>>)
           /\ \A i \in Exchanges :
                 i < exIdx => (chunks'[i] = chunks[i] /\ results'[i] = results[i])
       ]_vars

\* The first exchange read "\r\nB" in one chunk and returned all of it, the
\* "B" after the terminator included.
C18_Witness ==
    /\ results[1] = Ok(<<CR, LF, 66>>)
    /\ chunks[1] = << <<CR, LF, 66>> >>

\* C19: a read that returns zero bytes or times out leaves the buffer as it
\* is.  Inside a call the buffer changes only when a read returns N > 0
\* bytes, which are appended (decoded); so the buffer only grows and is at
\* every moment the concatenation of the non-empty chunks read so far in
\* this call.
C19_BufferOnlyGrows ==
    /\ [](InReadLoop
            => /\ buffer = LossyConcat(chunks[exIdx])
               /\ \A j \in 1..Len(chunks[exIdx]) : chunks[exIdx][j] # <<>>)
    /\ [][ /\ (ReadStep /\ last_read' \in {"zero", "TimedOut"})
               => (buffer' = buffer /\ chunks' = chunks /\ wire' = wire)
           /\ (InReadLoop /\ buffer' # buffer)
               => /\ ReadStep
                  /\ last_read' = "data"
                  /\ Len(chunks'[exIdx]) = Len(chunks[exIdx]) + 1
                  /\ LET chunk == chunks'[exIdx][Len(chunks'[exIdx])] IN
                     /\ Len(chunk) > 0
                     /\ Len(chunk) <= temp_buffer_len
                     /\ buffer' = buffer \o from_utf8_lossy(chunk)
                  /\ Len(buffer') > Len(buffer)
           /\ (InReadLoop /\ chunks' # chunks) => buffer' # buffer
       ]_vars

\* After two chunks a read has timed out, and the buffer still holds the two
\* chunks.
C19_Witness ==
    /\ pc = "loop"
    /\ last_read = "TimedOut"
    /\ Len(chunks[exIdx]) = 2
    /\ buffer # <<>>
    /\ buffer = LossyConcat(chunks[exIdx])

====
